---- MODULE Spec2Model ----
(***************************************************************************)
(* Model of the Gemini code-review helper:                                 *)
(*   scripts/ai-code-reviewer/review.py  (variant "ai")                    *)
(*   scripts/review.py                   (variant "legacy")                *)
(* Text is modelled as sequences of one-character strings, so that         *)
(* str.startswith, slicing, the hunk-header regular expression and the     *)
(* {:4} number format are computed as Python computes them.                *)
(***************************************************************************)
EXTENDS Integers, Sequences, FiniteSets, TLC

VARIABLES
  variant,     \* which of the two scripts runs: "ai" or "legacy"
  env,         \* process environment, read once and never mutated
  pc,          \* position of the single thread of control
  exit_code,   \* process exit status (-1 while running)
  faults,      \* history: external failures that are not about GITHUB_TOKEN
  diff_text,   \* argument of summarize_multi_file_diff, already splitlines()'d
  pos,         \* number of lines of diff_text consumed by the for loop
  results, file_path, old_lines, new_lines, old_num, new_num,
  flush_at,    \* history: the loop positions at which flush() was called
  diff,        \* main's transcript handed to the prompt
  review,      \* text returned by review_code
  comments,    \* value returned by parse_review_comments
  idx,         \* number of comments consumed by the posting loop
  calls,       \* history: create_review_comment calls issued, in order
  caught       \* history: loop positions whose exception was caught

vars == <<variant, env, pc, exit_code, faults, diff_text, pos, results,
          file_path, old_lines, new_lines, old_num, new_num, flush_at,
          diff, review, comments, idx, calls, caught>>

scan_vars == <<diff_text, pos, results, file_path, old_lines, new_lines,
               old_num, new_num, flush_at>>

post_vars == <<review, comments, idx, calls, caught>>

(***************************************************************************)
(* Bounds                                                                  *)
(***************************************************************************)
MaxLines == 3

MaxMainLines == 2

MaxComments == 2

(***************************************************************************)
(* Text helpers                                                            *)
(***************************************************************************)
PadWidth == 4

NoneNum == -1

Digits == <<"0", "1", "2", "3", "4", "5", "6", "7", "8", "9">>

IsDigit(c) == \E d \in 1..10 : Digits[d] = c

DigitVal(c) == (CHOOSE d \in 1..10 : Digits[d] = c) - 1

StartsWith(s, p) == Len(s) >= Len(p) /\ SubSeq(s, 1, Len(p)) = p

\* s[n:] for a 0-based Python index n
SliceFrom(s, n) == SubSeq(s, n + 1, Len(s))

RECURSIVE LStrip(_)
LStrip(s) == IF s # <<>> /\ Head(s) \in {" ", "\n", "\t"} THEN LStrip(Tail(s)) ELSE s

RECURSIVE RStrip(_)
RStrip(s) ==
  IF s # <<>> /\ s[Len(s)] \in {" ", "\n", "\t"}
  THEN RStrip(SubSeq(s, 1, Len(s) - 1)) ELSE s

Strip(s) == RStrip(LStrip(s))

RECURSIVE IntToStr(_)
IntToStr(n) ==
  IF n < 10 THEN <<Digits[n + 1]>>
  ELSE IntToStr(n \div 10) \o <<Digits[(n % 10) + 1]>>

RECURSIVE Spaces(_)
Spaces(k) == IF k <= 0 THEN <<>> ELSE <<" ">> \o Spaces(k - 1)

\* format(n, '4'): decimal, right-aligned in a field of at least four
Pad4(n) == LET s == IntToStr(n) IN Spaces(PadWidth - Len(s)) \o s

RECURSIVE StrToInt(_)
StrToInt(s) ==
  IF Len(s) = 1 THEN DigitVal(s[1])
  ELSE 10 * StrToInt(SubSeq(s, 1, Len(s) - 1)) + DigitVal(s[Len(s)])

\* '\n'.join(lines)
RECURSIVE Join(_)
Join(lines) ==
  IF lines = <<>> THEN <<>>
  ELSE IF Len(lines) = 1 THEN lines[1]
  ELSE lines[1] \o <<"\n">> \o Join(Tail(lines))

S_diff_git == <<"d", "i", "f", "f", " ", "-", "-", "g", "i", "t">>

S_new_file == <<"+", "+", "+", " ", "b", "/">>

S_at == <<"@", "@">>

S_at_minus == <<"@", "@", " ", "-">>

S_sp_plus == <<" ", "+">>

S_sp_at == <<" ", "@", "@">>

S_minus3 == <<"-", "-", "-">>

S_plus3 == <<"+", "+", "+">>

S_filePath == <<"f", "i", "l", "e", "P", "a", "t", "h", ":", " ">>

S_old_hunk == <<"o", "l", "d", "_", "h", "u", "n", "k", " ", "(", "b", "e", "f", "o", "r", "e", " ", "c", "h", "a", "n", "g", "e", ")", ":">>

S_new_hunk == <<"\n", "n", "e", "w", "_", "h", "u", "n", "k", " ", "(", "a", "f", "t", "e", "r", " ", "c", "h", "a", "n", "g", "e", ")", ":">>

S_bar == <<" ", "|", " ">>

(***************************************************************************)
(* re.match(r'^@@ -(\d+).* \+(\d+).* @@', line)                            *)
(***************************************************************************)
\* last index of the run of digits that starts at index i (i - 1 if none)
RECURSIVE DigitRunEnd(_, _)
DigitRunEnd(s, i) ==
  IF i <= Len(s) /\ IsDigit(s[i]) THEN DigitRunEnd(s, i + 1) ELSE i - 1

HasAt(s, i, p) == i >= 1 /\ i + Len(p) - 1 <= Len(s) /\ SubSeq(s, i, i + Len(p) - 1) = p

\* positions p at which ' \+(\d+).* @@' can match, given group 1 ended at e1
PlusSites(s, e1) ==
  { p \in (e1 + 1)..Len(s) :
      /\ HasAt(s, p, S_sp_plus)
      /\ DigitRunEnd(s, p + 2) >= p + 2
      /\ \E q \in (DigitRunEnd(s, p + 2) + 1)..Len(s) : HasAt(s, q, S_sp_at) }

Max(S) == CHOOSE x \in S : \A y \in S : y <= x

HunkMatches(line) ==
  /\ StartsWith(line, S_at_minus)
  /\ DigitRunEnd(line, 5) >= 5
  /\ PlusSites(line, DigitRunEnd(line, 5)) # {}

\* int(m[1]): both \d+ and .* are greedy
HunkOld(line) == StrToInt(SubSeq(line, 5, DigitRunEnd(line, 5)))

\* int(m[2])
HunkNew(line) ==
  LET p == Max(PlusSites(line, DigitRunEnd(line, 5)))
  IN StrToInt(SubSeq(line, p + 2, DigitRunEnd(line, p + 2)))

(***************************************************************************)
(* summarize_multi_file_diff                                               *)
(***************************************************************************)
\* f'{sign}{num:4} | {line[1:]}'
Entry(sign, num, line) == <<sign>> \o Pad4(num) \o S_bar \o SliceFrom(line, 1)

\* the closure flush(): the value of results after the call
flush(res, path, olds, news) ==
  IF path # <<>>
  THEN res \o <<S_filePath \o path>>
           \o (IF olds # <<>> THEN <<S_old_hunk>> \o olds ELSE <<>>)
           \o (IF news # <<>> THEN <<S_new_hunk>> \o news ELSE <<>>)
           \o << <<>> >>
  ELSE res

\* the branch of the if/elif chain that a line takes
Branch(line) ==
  IF StartsWith(line, S_diff_git) THEN "diff_git"
  ELSE IF StartsWith(line, S_new_file) THEN "new_file"
  ELSE IF StartsWith(line, S_at) THEN "hunk"
  ELSE IF StartsWith(line, <<"-">>) /\ ~StartsWith(line, S_minus3) THEN "deletion"
  ELSE IF StartsWith(line, <<"+">>) /\ ~StartsWith(line, S_plus3) THEN "addition"
  ELSE IF StartsWith(line, <<" ">>) THEN "context"
  ELSE "other"

CurLine == diff_text[pos + 1]

Scanning(b) == pc = "summarize" /\ pos < Len(diff_text) /\ Branch(CurLine) = b

main_frame == UNCHANGED <<variant, env, exit_code, diff, review, comments, idx, calls, caught>>

\* an exception leaves summarize_multi_file_diff and reaches main's handler
RaiseTypeError ==
  /\ pc' = "main_except"
  /\ faults' = faults \cup {"malformed_diff"}
  /\ UNCHANGED <<diff_text, pos, results, file_path, old_lines, new_lines,
                 old_num, new_num, flush_at>>

ScanDiffGit ==
  /\ Scanning("diff_git")
  /\ results' = flush(results, file_path, old_lines, new_lines)
  /\ flush_at' = Append(flush_at, pos + 1)
  /\ old_lines' = <<>>
  /\ new_lines' = <<>>
  /\ pos' = pos + 1
  /\ UNCHANGED <<pc, faults, diff_text, file_path, old_num, new_num>>
  /\ main_frame

ScanNewFile ==
  /\ Scanning("new_file")
  /\ file_path' = Strip(SliceFrom(CurLine, 6))
  /\ pos' = pos + 1
  /\ UNCHANGED <<pc, faults, diff_text, results, old_lines, new_lines,
                 old_num, new_num, flush_at>>
  /\ main_frame

ScanHunkHeader ==
  /\ Scanning("hunk")
  /\ IF HunkMatches(CurLine)
     THEN old_num' = HunkOld(CurLine) /\ new_num' = HunkNew(CurLine)
     ELSE UNCHANGED <<old_num, new_num>>
  /\ pos' = pos + 1
  /\ UNCHANGED <<pc, faults, diff_text, results, file_path, old_lines,
                 new_lines, flush_at>>
  /\ main_frame

ScanDeletion ==
  /\ Scanning("deletion")
  /\ IF old_num = NoneNum
     THEN RaiseTypeError
     ELSE /\ old_lines' = Append(old_lines, Entry("-", old_num, CurLine))
          /\ old_num' = old_num + 1
          /\ pos' = pos + 1
          /\ UNCHANGED <<pc, faults, diff_text, results, file_path,
                         new_lines, new_num, flush_at>>
  /\ main_frame

ScanAddition ==
  /\ Scanning("addition")
  /\ IF new_num = NoneNum
     THEN RaiseTypeError
     ELSE /\ new_lines' = Append(new_lines, Entry("+", new_num, CurLine))
          /\ new_num' = new_num + 1
          /\ pos' = pos + 1
          /\ UNCHANGED <<pc, faults, diff_text, results, file_path,
                         old_lines, old_num, flush_at>>
  /\ main_frame

\* the slip of leaving out line 100
ContextStepNoOld(o, n) == <<o, n + 1>>

\* lines 99-100: the counters after a context line
ContextStep(o, n) == <<o + 1, n + 1>>

ScanContext ==
  /\ Scanning("context")
  /\ IF old_num = NoneNum \/ new_num = NoneNum
     THEN RaiseTypeError
     ELSE /\ old_lines' = Append(old_lines, Entry(" ", old_num, CurLine))
          /\ new_lines' = Append(new_lines, Entry(" ", new_num, CurLine))
          /\ old_num' = ContextStep(old_num, new_num)[1]
          /\ new_num' = ContextStep(old_num, new_num)[2]
          /\ pos' = pos + 1
          /\ UNCHANGED <<pc, faults, diff_text, results, file_path, flush_at>>
  /\ main_frame

ScanOther ==
  /\ Scanning("other")
  /\ pos' = pos + 1
  /\ UNCHANGED <<pc, faults, diff_text, results, file_path, old_lines,
                 new_lines, old_num, new_num, flush_at>>
  /\ main_frame

\* line 102: the flush after the loop
ScanFinalFlush ==
  /\ pc = "summarize"
  /\ pos = Len(diff_text)
  /\ results' = flush(results, file_path, old_lines, new_lines)
  /\ flush_at' = Append(flush_at, pos + 1)
  /\ pc' = "summarize_return"
  /\ UNCHANGED <<faults, diff_text, pos, file_path, old_lines, new_lines,
                 old_num, new_num>>
  /\ main_frame

ScanIdle == <<>>

\* line 103 and the assignment at line 280; the locals die with the frame
SummarizeReturn ==
  /\ pc = "summarize_return"
  /\ diff' = Join(results)
  /\ pc' = "get_code_guidelines"
  /\ diff_text' = ScanIdle
  /\ pos' = 0
  /\ results' = <<>>
  /\ file_path' = <<>>
  /\ old_lines' = <<>>
  /\ new_lines' = <<>>
  /\ old_num' = NoneNum
  /\ new_num' = NoneNum
  /\ flush_at' = <<>>
  /\ UNCHANGED <<variant, env, exit_code, faults, review, comments, idx, calls, caught>>

(***************************************************************************)
(* Environment and module import (lines 21-36 / 18-33)                     *)
(***************************************************************************)
\* GITHUB_REF: unset, refs/pull/7/merge, refs/pull/x/merge
RefValues == {"none", "pull_ok", "pull_bad"}

\* GITHUB_EVENT_PATH: unset, a file with pull_request.number, an unreadable file
EventValues == {"none", "number", "unreadable"}

\* anon_ok: whether the hosting API serves the repository to a client
\* constructed as Github(None)
Envs ==
  [google_key : BOOLEAN, token : BOOLEAN, repository : BOOLEAN,
   ref : RefValues, event : EventValues, anon_ok : BOOLEAN]

\* get_pr_info: the pull-request number, or NoneNum for (None, None)
get_pr_info(e) ==
  LET from_ref == IF e.ref = "pull_ok" THEN <<"7">>
                  ELSE IF e.ref = "pull_bad" THEN <<"x">> ELSE <<>>
      pr_number_str ==
        IF from_ref # <<>> THEN from_ref
        ELSE IF e.event = "number" THEN <<"7">> ELSE <<>>
  IN IF ~e.repository \/ pr_number_str = <<>> THEN NoneNum
     ELSE IF \A i \in 1..Len(pr_number_str) : IsDigit(pr_number_str[i])
          THEN StrToInt(pr_number_str)
          ELSE NoneNum

\* `if repo_name and pr_number` / `if not repo_name or not pr_number`
HasPrInfo(e) == get_pr_info(e) # NoneNum /\ get_pr_info(e) # 0

\* g.get_repo / repo.get_pull raise for a client without credentials when the
\* repository is not served anonymously, and on any injected network fault
ApiRaises(e, network_fault) == network_fault \/ (~e.token /\ ~e.anon_ok)

scan_frame == UNCHANGED scan_vars

post_frame == UNCHANGED post_vars

\* sys.exit(1): SystemExit is not an Exception, main's handler lets it through
SysExit1(fault) ==
  /\ pc' = "exited"
  /\ exit_code' = 1
  /\ faults' = faults \cup {fault}

ImportModule ==
  /\ pc = "import"
  /\ IF env.google_key
     THEN pc' = "get_git_diff" /\ UNCHANGED <<exit_code, faults>>
     ELSE SysExit1("no_api_key")
  /\ UNCHANGED <<variant, env, diff>>
  /\ scan_frame
  /\ post_frame

(***************************************************************************)
(* get_git_diff                                                            *)
(***************************************************************************)
\* lines of git output, one or more for every branch of the scan
L_hunk_5_7 == <<"@", "@", " ", "-", "5", ",", "2", " ", "+", "7", ",", "3", " ", "@", "@">>

L_del == <<"-", "x">>

L_git_A == <<"d", "i", "f", "f", " ", "-", "-", "g", "i", "t", " ", "a", "/", "A", " ", "b", "/", "A">>

L_old_A == <<"-", "-", "-", " ", "a", "/", "A">>

L_new_A == <<"+", "+", "+", " ", "b", "/", "A">>

L_new_B == <<"+", "+", "+", " ", "b", "/", "B", " ">>

L_new_null == <<"+", "+", "+", " ", "/", "d", "e", "v", "/", "n", "u", "l", "l">>

L_hunk_3_3 == <<"@", "@", " ", "-", "3", " ", "+", "3", " ", "@", "@", " ", "f">>

L_hunk_bad == <<"@", "@", " ", "b", "a", "d">>

L_add == <<"+", "y">>

L_ctx == <<" ", "z">>

L_del_dec == <<"-", "-", "-", "i">>

L_add_inc == <<"+", "+", "+", "j">>

L_nonl == <<"\\", " ", "N", "o", " ", "n", "e", "w", "l", "i", "n", "e">>

MainPool == {L_git_A, L_new_A, L_hunk_5_7, L_del, L_add, L_ctx, L_nonl}

RECURSIVE SeqsUpTo(_, _)
SeqsUpTo(S, n) ==
  IF n = 0 THEN {<<>>}
  ELSE LET shorter == SeqsUpTo(S, n - 1)
       IN shorter \cup {Append(s, x) : s \in {t \in shorter : Len(t) = n - 1}, x \in S}

MainDiffs == SeqsUpTo(MainPool, MaxMainLines)

\* the hosting-API lookups of lines 45-47 raise; only CalledProcessError is
\* caught at line 58, so the exception reaches main's handler
GetGitDiffApiRaises ==
  /\ pc = "get_git_diff"
  /\ variant = "ai"
  /\ HasPrInfo(env)
  /\ \E network_fault \in BOOLEAN :
       /\ ApiRaises(env, network_fault)
       /\ faults' = IF network_fault THEN faults \cup {"network"} ELSE faults
  /\ pc' = "main_except"
  /\ UNCHANGED <<variant, env, exit_code, diff>>
  /\ scan_frame
  /\ post_frame

\* subprocess.CalledProcessError, lines 58-62 / 40-44
GetGitDiffGitFails ==
  /\ pc = "get_git_diff"
  /\ variant = "ai" /\ HasPrInfo(env) => ~ApiRaises(env, FALSE)
  /\ SysExit1("git")
  /\ UNCHANGED <<variant, env, diff>>
  /\ scan_frame
  /\ post_frame

GetGitDiffOk ==
  /\ pc = "get_git_diff"
  /\ variant = "ai" /\ HasPrInfo(env) => ~ApiRaises(env, FALSE)
  /\ \E d \in MainDiffs :
       IF variant = "ai"
       THEN /\ diff_text' = d
            /\ pc' = "summarize"
            /\ UNCHANGED diff
       ELSE /\ diff' = Join(d)
            /\ pc' = "get_code_guidelines"
            /\ UNCHANGED diff_text
  /\ UNCHANGED <<variant, env, exit_code, faults, pos, results, file_path,
                 old_lines, new_lines, old_num, new_num, flush_at>>
  /\ post_frame

(***************************************************************************)
(* get_code_guidelines, load_prompt_template, str.format, review_code      *)
(***************************************************************************)
GetCodeGuidelines ==
  /\ pc = "get_code_guidelines"
  /\ \E ok \in BOOLEAN :
       IF ok THEN pc' = "load_prompt_template" /\ UNCHANGED <<exit_code, faults>>
       ELSE SysExit1("guidelines")
  /\ UNCHANGED <<variant, env, diff>>
  /\ scan_frame
  /\ post_frame

LoadPromptTemplate ==
  /\ pc = "load_prompt_template"
  /\ \E ok \in BOOLEAN :
       IF ok THEN pc' = "format" /\ UNCHANGED <<exit_code, faults>>
       ELSE SysExit1("prompt")
  /\ UNCHANGED <<variant, env, diff>>
  /\ scan_frame
  /\ post_frame

\* prompt_template.format(guidelines=..., diff=...) raises KeyError or
\* IndexError on a template with any other replacement field; the transcript
\* becomes part of the prompt and is not read again
FormatPrompt ==
  /\ pc = "format"
  /\ \E ok \in BOOLEAN :
       IF ok THEN pc' = "review_code" /\ UNCHANGED faults
       ELSE pc' = "main_except" /\ faults' = faults \cup {"format"}
  /\ diff' = <<>>
  /\ UNCHANGED <<variant, env, exit_code>>
  /\ scan_frame
  /\ post_frame

(***************************************************************************)
(* Model responses                                                         *)
(***************************************************************************)
\* JSON scalars: an integer, null, a non-numeric string
IntV(n) == [t |-> "int", n |-> n]

NullV == [t |-> "null", n |-> 0]

StrV == [t |-> "str", n |-> 0]

AllKeys == {"file", "line", "startLine", "guideline", "explanation",
            "suggestionCode", "side", "endLine"}

\* one element of "violations": the keys present and the values read as numbers
Violation(is_dict, keys, startLine, line, endLine) ==
  [is_dict |-> is_dict, keys |-> keys, startLine |-> startLine,
   line |-> line, endLine |-> endLine]

R_full == Violation(TRUE, AllKeys, IntV(8), IntV(10), IntV(10))

\* the record of the response shape without "side" and "endLine"
R_example == Violation(TRUE, AllKeys \ {"side", "endLine"}, NullV, IntV(10), NullV)

\* only the required fields
R_required == Violation(TRUE, {"file", "line", "guideline", "explanation"}, NullV, IntV(10), NullV)

R_bad_line == Violation(TRUE, AllKeys, NullV, StrV, IntV(10))

\* an element that is a JSON string, not an object
R_not_dict == Violation(FALSE, {}, NullV, NullV, NullV)

RecordPool == {R_full, R_example, R_required, R_bad_line, R_not_dict}

\* Python values that "violations" can hold
ListV(items) == [t |-> "list", items |-> items]

NoneV == [t |-> "null", items |-> <<>>]

NumV == [t |-> "int", items |-> <<>>]

\* a JSON document: syntactically valid or not, its top-level type, "violations"
Doc(valid, top, has_violations, violations) ==
  [valid |-> valid, top |-> top, has_violations |-> has_violations,
   violations |-> violations]

D_not_json == Doc(FALSE, "none", FALSE, NoneV)

D_empty_dict == Doc(TRUE, "dict", FALSE, NoneV)

D_null == Doc(TRUE, "dict", TRUE, NoneV)

D_number == Doc(TRUE, "dict", TRUE, NumV)

D_top_list == Doc(TRUE, "list", FALSE, NoneV)

D_list(items) == Doc(TRUE, "dict", TRUE, ListV(items))

\* a response is a sequence of tokens: the fence openers, whitespace, text
T_fence_json == [k |-> "fence_json", doc |-> D_not_json]

T_fence == [k |-> "fence", doc |-> D_not_json]

T_ws == [k |-> "ws", doc |-> D_not_json]

T_text(d) == [k |-> "text", doc |-> d]

Fenced(d) == <<T_fence_json, T_ws, T_text(d), T_ws, T_fence>>

Reviews ==
  {<<>>, <<T_ws>>, <<T_fence>>, <<T_fence, T_ws, T_text(D_empty_dict), T_ws, T_fence>>,
   <<T_text(D_empty_dict), T_text(D_empty_dict)>>}
  \cup {<<T_text(d)>> : d \in {D_not_json, D_empty_dict, D_null, D_number, D_top_list}}
  \cup {Fenced(d) : d \in {D_not_json, D_list(<<>>), D_list(<<R_example>>)}}
  \cup {<<T_ws, T_text(D_list(items)), T_ws>> : items \in SeqsUpTo(RecordPool, MaxComments)}

NoReview == <<[k |-> "unset", doc |-> D_not_json]>>

ReviewCode ==
  /\ pc = "review_code"
  /\ \/ \E r \in Reviews :
          /\ review' = r
          /\ pc' = "parse_review_comments"
          /\ UNCHANGED <<exit_code, faults>>
     \/ SysExit1("llm") /\ UNCHANGED review
  /\ UNCHANGED <<variant, env, diff, comments, idx, calls, caught>>
  /\ scan_frame

(***************************************************************************)
(* parse_review_comments                                                   *)
(***************************************************************************)
RECURSIVE LStripWs(_)
LStripWs(r) == IF r # <<>> /\ Head(r).k = "ws" THEN LStripWs(Tail(r)) ELSE r

RECURSIVE RStripWs(_)
RStripWs(r) ==
  IF r # <<>> /\ r[Len(r)].k = "ws" THEN RStripWs(SubSeq(r, 1, Len(r) - 1)) ELSE r

\* re.sub(r"^```json\s*|\s*```$", "", review.strip(), flags=re.DOTALL)
CleanStr(r) ==
  LET s == RStripWs(LStripWs(r))
      a == IF s # <<>> /\ Head(s).k = "fence_json" THEN LStripWs(Tail(s)) ELSE s
  IN IF a # <<>> /\ a[Len(a)].k = "fence"
     THEN RStripWs(SubSeq(a, 1, Len(a) - 1)) ELSE a

\* json.loads accepts one document with optional surrounding whitespace
JsonValid(c) ==
  LET s == RStripWs(LStripWs(c))
  IN Len(s) = 1 /\ s[1].k = "text" /\ s[1].doc.valid

JsonLoads(c) == RStripWs(LStripWs(c))[1].doc

\* the exception raised inside the try block, "none" if it runs to the return
ParseException(r) ==
  IF ~JsonValid(CleanStr(r)) THEN "JSONDecodeError"
  ELSE IF JsonLoads(CleanStr(r)).top # "dict" THEN "AttributeError"
  ELSE "none"

\* the slip of catching json.JSONDecodeError only
ParseHandledJsonOnly(exc) == exc = "JSONDecodeError"

\* the handlers of lines 197-204: which exceptions are turned into []
ParseHandled(exc) == exc \in {"JSONDecodeError", "AttributeError"}

\* [raised |-> an exception leaves the function, value |-> the value returned]
parse_review_comments(r) ==
  LET exc == ParseException(r)
  IN IF exc = "none"
     THEN LET data == JsonLoads(CleanStr(r))
          IN [raised |-> FALSE,
              value |-> IF data.has_violations THEN data.violations ELSE ListV(<<>>)]
     ELSE IF ParseHandled(exc)
          THEN [raised |-> FALSE, value |-> ListV(<<>>)]
          ELSE [raised |-> TRUE, value |-> ListV(<<>>)]

ParseReviewComments ==
  /\ pc = "parse_review_comments"
  /\ LET out == parse_review_comments(review)
     IN IF out.raised
        THEN pc' = "main_except" /\ UNCHANGED comments
        ELSE pc' = "post_review_comments" /\ comments' = out.value
  /\ UNCHANGED <<variant, env, exit_code, faults, diff, review, idx, calls, caught>>
  /\ scan_frame

(***************************************************************************)
(* post_review_comments                                                    *)
(***************************************************************************)
\* the value passed on when a field is read without conversion
NumOf(v) == IF v.t = "int" THEN v.n ELSE NoneNum

\* `x if x else None` and the later `if start_line:`
Truthy(v) == (v.t = "int" /\ v.n # 0) \/ v.t = "str"

\* int(v)
IntException(v) ==
  IF v.t = "int" THEN "none" ELSE IF v.t = "null" THEN "TypeError" ELSE "ValueError"

\* comment[key]
GetItemException(c, key) ==
  IF ~c.is_dict THEN "TypeError" ELSE IF key \notin c.keys THEN "KeyError" ELSE "none"

\* first element of a sequence of exception names that is not "none"
RECURSIVE FirstException(_)
FirstException(es) ==
  IF es = <<>> THEN "none"
  ELSE IF Head(es) # "none" THEN Head(es) ELSE FirstException(Tail(es))

\* the exception raised while the arguments of the call are evaluated
BuildException(v, c) ==
  IF v = "ai"
  THEN FirstException(<<
         GetItemException(c, "startLine"),
         IF Truthy(c.startLine) THEN IntException(c.startLine) ELSE "none",
         GetItemException(c, "line"),
         IntException(c.line),
         GetItemException(c, "guideline"),
         GetItemException(c, "explanation"),
         GetItemException(c, "suggestionCode"),
         GetItemException(c, "file")>>)
  ELSE FirstException(<<
         GetItemException(c, "guideline"),
         GetItemException(c, "explanation"),
         GetItemException(c, "suggestionCode"),
         GetItemException(c, "file"),
         GetItemException(c, "endLine"),
         GetItemException(c, "startLine"),
         GetItemException(c, "side")>>)

\* the keyword arguments of pr.create_review_comment
CallArgs(v, c) ==
  IF v = "ai"
  THEN [line |-> c.line.n,
        start_line |-> IF Truthy(c.startLine) THEN c.startLine.n ELSE NoneNum,
        side |-> "RIGHT"]
  ELSE [line |-> NumOf(c.endLine),
        start_line |-> NumOf(c.startLine),
        side |-> "comment.side"]

\* `if not comments`
NotComments(cs) == cs.t = "null" \/ (cs.t = "list" /\ cs.items = <<>>)

\* the slip of re-raising from the outer handler
PostHandlerReraise == "main_except"

\* the slip of leaving the loop from the inner handler
LoopHandlerBreak(i, n) == n

\* the handler of lines 269-273 / 196-200: where control goes from it
PostHandler == "main_return"

\* the handler of lines 264-266 / 191-193: the loop position that follows
LoopHandler(i, n) == i + 1

PostEnabled == pc = "post_review_comments" /\ env.token /\ HasPrInfo(env)

post_step_frame ==
  /\ UNCHANGED <<variant, env, exit_code, diff, review, comments>>
  /\ scan_frame

PostSkipNoToken ==
  /\ pc = "post_review_comments"
  /\ ~env.token
  /\ pc' = "main_return"
  /\ UNCHANGED <<faults, idx, calls, caught>>
  /\ post_step_frame

PostSkipNoPrInfo ==
  /\ pc = "post_review_comments"
  /\ env.token
  /\ ~HasPrInfo(env)
  /\ pc' = "main_return"
  /\ UNCHANGED <<faults, idx, calls, caught>>
  /\ post_step_frame

\* g.get_repo or repo.get_pull raises
PostLookupRaises ==
  /\ PostEnabled
  /\ ApiRaises(env, TRUE)
  /\ pc' = PostHandler
  /\ faults' = faults \cup {"post_lookup"}
  /\ UNCHANGED <<idx, calls, caught>>
  /\ post_step_frame

PostNoComments ==
  /\ PostEnabled
  /\ NotComments(comments)
  /\ pc' = "main_return"
  /\ UNCHANGED <<faults, idx, calls, caught>>
  /\ post_step_frame

\* pr.get_commits raises
PostCommitsRaises ==
  /\ PostEnabled
  /\ ~NotComments(comments)
  /\ pc' = PostHandler
  /\ faults' = faults \cup {"post_commits"}
  /\ UNCHANGED <<idx, calls, caught>>
  /\ post_step_frame

PostNoCommits ==
  /\ PostEnabled
  /\ ~NotComments(comments)
  /\ pc' = "main_return"
  /\ faults' = faults \cup {"no_commits"}
  /\ UNCHANGED <<idx, calls, caught>>
  /\ post_step_frame

\* `for comment in comments` over a value that is not a list
PostNotIterable ==
  /\ PostEnabled
  /\ ~NotComments(comments)
  /\ comments.t # "list"
  /\ pc' = PostHandler
  /\ UNCHANGED <<faults, idx, calls, caught>>
  /\ post_step_frame

PostEnterLoop ==
  /\ PostEnabled
  /\ ~NotComments(comments)
  /\ comments.t = "list"
  /\ pc' = "post_loop"
  /\ idx' = 0
  /\ UNCHANGED <<faults, calls, caught>>
  /\ post_step_frame

\* one iteration whose try block raises before the call is made
PostLoopBuildFails ==
  /\ pc = "post_loop"
  /\ idx < Len(comments.items)
  /\ BuildException(variant, comments.items[idx + 1]) # "none"
  /\ caught' = Append(caught, idx + 1)
  /\ idx' = LoopHandler(idx, Len(comments.items))
  /\ UNCHANGED <<pc, faults, calls>>
  /\ post_step_frame

\* one iteration that issues the call; the hosting API accepts it or raises
PostLoopCall ==
  /\ pc = "post_loop"
  /\ idx < Len(comments.items)
  /\ BuildException(variant, comments.items[idx + 1]) = "none"
  /\ \E ok \in BOOLEAN :
       /\ calls' = Append(calls, [rec |-> idx + 1, ok |-> ok,
                                  args |-> CallArgs(variant, comments.items[idx + 1])])
       /\ IF ok
          THEN idx' = idx + 1 /\ UNCHANGED caught
          ELSE /\ caught' = Append(caught, idx + 1)
               /\ idx' = LoopHandler(idx, Len(comments.items))
  /\ UNCHANGED <<pc, faults>>
  /\ post_step_frame

PostLoopEnd ==
  /\ pc = "post_loop"
  /\ idx >= Len(comments.items)
  /\ pc' = "main_return"
  /\ UNCHANGED <<faults, idx, calls, caught>>
  /\ post_step_frame

(***************************************************************************)
(* main                                                                    *)
(***************************************************************************)
\* post_review_comments returned; main falls off its end
MainReturn ==
  /\ pc = "main_return"
  /\ pc' = "exited"
  /\ exit_code' = 0
  /\ UNCHANGED <<variant, env, faults, diff>>
  /\ scan_frame
  /\ post_frame

\* lines 299-303 / 225-229
MainExcept ==
  /\ pc = "main_except"
  /\ pc' = "exited"
  /\ exit_code' = 1
  /\ UNCHANGED <<variant, env, faults, diff>>
  /\ scan_frame
  /\ post_frame

(***************************************************************************)
(* Specifications                                                          *)
(***************************************************************************)
ScanInit ==
  /\ diff_text = ScanIdle
  /\ pos = 0
  /\ results = <<>>
  /\ file_path = <<>>
  /\ old_lines = <<>>
  /\ new_lines = <<>>
  /\ old_num = NoneNum
  /\ new_num = NoneNum
  /\ flush_at = <<>>

PostInit ==
  /\ review = NoReview
  /\ comments = ListV(<<>>)
  /\ idx = 0
  /\ calls = <<>>
  /\ caught = <<>>

Init ==
  /\ variant \in {"ai", "legacy"}
  /\ env \in Envs
  /\ pc = "import"
  /\ exit_code = -1
  /\ faults = {}
  /\ diff = <<>>
  /\ ScanInit
  /\ PostInit

Next ==
  \/ ImportModule
  \/ GetGitDiffApiRaises
  \/ GetGitDiffGitFails
  \/ GetGitDiffOk
  \/ ScanDiffGit
  \/ ScanNewFile
  \/ ScanHunkHeader
  \/ ScanDeletion
  \/ ScanAddition
  \/ ScanContext
  \/ ScanOther
  \/ ScanFinalFlush
  \/ SummarizeReturn
  \/ GetCodeGuidelines
  \/ LoadPromptTemplate
  \/ FormatPrompt
  \/ ReviewCode
  \/ ParseReviewComments
  \/ PostSkipNoToken
  \/ PostSkipNoPrInfo
  \/ PostLookupRaises
  \/ PostNoComments
  \/ PostCommitsRaises
  \/ PostNoCommits
  \/ PostNotIterable
  \/ PostEnterLoop
  \/ PostLoopBuildFails
  \/ PostLoopCall
  \/ PostLoopEnd
  \/ MainReturn
  \/ MainExcept

Spec == Init /\ [][Next]_vars

\* summarize_multi_file_diff applied to every diff of at most MaxLines lines
LinePool ==
  {L_git_A, L_old_A, L_new_A, L_new_B, L_new_null, L_hunk_5_7, L_hunk_3_3,
   L_hunk_bad, L_del, L_add, L_ctx, L_del_dec, L_add_inc, L_nonl}

Diffs == SeqsUpTo(LinePool, MaxLines)

DiffEnv ==
  [google_key |-> TRUE, token |-> TRUE, repository |-> TRUE, ref |-> "pull_ok",
   event |-> "none", anon_ok |-> TRUE]

DiffInit ==
  /\ variant = "ai"
  /\ env = DiffEnv
  /\ pc = "summarize"
  /\ exit_code = -1
  /\ faults = {}
  /\ diff = <<>>
  /\ diff_text \in Diffs
  /\ pos = 0
  /\ results = <<>>
  /\ file_path = <<>>
  /\ old_lines = <<>>
  /\ new_lines = <<>>
  /\ old_num = NoneNum
  /\ new_num = NoneNum
  /\ flush_at = <<>>
  /\ PostInit

DiffNext ==
  \/ ScanDiffGit
  \/ ScanNewFile
  \/ ScanHunkHeader
  \/ ScanDeletion
  \/ ScanAddition
  \/ ScanContext
  \/ ScanOther
  \/ ScanFinalFlush
  \/ SummarizeReturn

DiffSpec == DiffInit /\ [][DiffNext]_vars

(***************************************************************************)
(* Properties of summarize_multi_file_diff                                 *)
(***************************************************************************)
FirstChar(line, S) == line # <<>> /\ line[1] \in S

IsGitLine(line) == StartsWith(line, S_diff_git)

IsAtLine(line) == StartsWith(line, S_at)

\* the index of the header that opens the hunk line i lies in: the last @@
\* line before i, with no file boundary in between
HunkSites(d, i) ==
  { j \in 1..(i - 1) :
      /\ IsAtLine(d[j])
      /\ \A l \in (j + 1)..(i - 1) : ~IsGitLine(d[l]) /\ ~IsAtLine(d[l]) }

InHunkBody(d, i) == HunkSites(d, i) # {}

HunkSite(d, i) == CHOOSE j \in HunkSites(d, i) : TRUE

IsFileMarker(line) ==
  StartsWith(line, <<"-", "-", "-", " ">>) \/ StartsWith(line, <<"+", "+", "+", " ">>)

\* every @@ line is well formed and every changed or context line lies in a hunk
Balanced(d) ==
  /\ \A i \in 1..Len(d) : IsAtLine(d[i]) => HunkMatches(d[i])
  /\ \A i \in 1..Len(d) :
       FirstChar(d[i], {"-", "+", " "}) /\ ~InHunkBody(d, i) => IsFileMarker(d[i])

\* number of lines of the hunk before line i whose first character is in S
Preceding(d, i, S) ==
  Cardinality({ l \in (HunkSite(d, i) + 1)..(i - 1) : FirstChar(d[l], S) })

Last(s) == s[Len(s)]

\* C1: in a diff with balanced hunk headers, every entry emitted into the old
\* buffer carries oldStart plus the number of deletion and context lines before
\* it in its hunk, and every entry emitted into the new buffer carries newStart
\* plus the number of addition and context lines before it in its hunk.
C1_NumbersAreStartPlusOffset ==
  [][(pc = "summarize" /\ pos' = pos + 1 /\ Balanced(diff_text)
        /\ InHunkBody(diff_text, pos + 1))
     => LET d == diff_text
            i == pos + 1
            h == d[HunkSite(d, i)]
        IN /\ Len(old_lines') = Len(old_lines) + 1
                => Last(old_lines')
                     = Entry(d[i][1], HunkOld(h) + Preceding(d, i, {"-", " "}), d[i])
           /\ Len(new_lines') = Len(new_lines) + 1
                => Last(new_lines')
                     = Entry(d[i][1], HunkNew(h) + Preceding(d, i, {"+", " "}), d[i])]_vars

\* the file blocks of a diff: the indices of its `diff --git` lines
GitSites(d) == { i \in 1..Len(d) : IsGitLine(d[i]) }

RECURSIVE SortedSeq(_)
SortedSeq(S) ==
  IF S = {} THEN <<>>
  ELSE LET m == CHOOSE x \in S : \A y \in S : x <= y
       IN <<m>> \o SortedSeq(S \ {m})

\* the lines of the k-th file block
BlockLines(d, k) ==
  LET g == SortedSeq(GitSites(d))
      last == IF k < Len(g) THEN g[k + 1] - 1 ELSE Len(d)
  IN SubSeq(d, g[k] + 1, last)

\* the paths that the `+++ b/` lines of a block name
BlockPaths(b) ==
  { Strip(SliceFrom(b[i], 6)) : i \in { j \in 1..Len(b) : StartsWith(b[j], S_new_file) } }

\* the paths of the `filePath:` headers of a transcript, in order
RECURSIVE HeaderPaths(_)
HeaderPaths(res) ==
  IF res = <<>> THEN <<>>
  ELSE (IF StartsWith(Head(res), S_filePath)
        THEN <<SliceFrom(Head(res), Len(S_filePath))>> ELSE <<>>)
       \o HeaderPaths(Tail(res))

\* C2: flush is called exactly at each `diff --git` line and once at the end
\* of input, and the transcript of a diff made of file blocks has exactly one
\* `filePath:` header per file block, the k-th header naming the path of the
\* k-th block.
C2_OneHeaderPerFileBlock ==
  (pc = "summarize_return" /\ diff_text # <<>> /\ IsGitLine(diff_text[1])) =>
    /\ flush_at = SortedSeq(GitSites(diff_text)) \o <<Len(diff_text) + 1>>
    /\ Len(HeaderPaths(results)) = Cardinality(GitSites(diff_text))
    /\ \A k \in 1..Len(HeaderPaths(results)) :
         HeaderPaths(results)[k] \in BlockPaths(BlockLines(diff_text, k))

\* C9: a diff with no @@ line yields the empty transcript.
C9_ZeroHunksEmptyTranscript ==
  (pc = "summarize_return" /\ \A i \in 1..Len(diff_text) : ~IsAtLine(diff_text[i]))
    => Join(results) = <<>>

\* the only lines that start with '+' or '-' are file markers outside a hunk
ContextOnlyBodies(d) ==
  \A i \in 1..Len(d) :
    FirstChar(d[i], {"+", "-"}) => IsFileMarker(d[i]) /\ ~InHunkBody(d, i)

\* every hunk header that matches declares the same old and new start
EqualStarts(d) ==
  \A i \in 1..Len(d) :
    IsAtLine(d[i]) /\ HunkMatches(d[i]) => HunkOld(d[i]) = HunkNew(d[i])

\* C10 as stated: whenever the hunk bodies hold only context lines, the old
\* buffer and the new buffer are identical.
C10_ContextOnlyBuffersIdentical ==
  ContextOnlyBodies(diff_text) => old_lines = new_lines

\* C10 amended: whenever the hunk bodies hold only context lines and every hunk
\* header declares the same old and new start, the old buffer and the new
\* buffer are identical, entry for entry.
C10_ContextOnlyEqualStartsIdentical ==
  ContextOnlyBodies(diff_text) /\ EqualStarts(diff_text) => old_lines = new_lines

\* two context lines of one hunk with equal starts have been transcribed
C10_Witness ==
  /\ pc = "summarize"
  /\ ContextOnlyBodies(diff_text)
  /\ EqualStarts(diff_text)
  /\ Len(old_lines) = 2
  /\ Len(new_lines) = 2

(***************************************************************************)
(* Properties of the run                                                   *)
(***************************************************************************)
\* the response is empty, is not one valid JSON document once the fence is
\* removed, or is a document on which the lookup of "violations" fails
Unusable(r) ==
  \/ r = <<>>
  \/ ~JsonValid(CleanStr(r))
  \/ JsonLoads(CleanStr(r)).top # "dict"

\* C3: parse_review_comments never raises: from the parsing step control always
\* goes on to the posting step, and an empty, malformed or otherwise unusable
\* response yields the empty sequence.
C3_ParseNeverRaises ==
  [][pc = "parse_review_comments"
       => /\ pc' = "post_review_comments"
          /\ Unusable(review) => comments' = ListV(<<>>)]_vars

\* a valid JSON document that is not an object went through the generic handler
C3_Witness ==
  /\ pc = "post_review_comments"
  /\ review = <<T_text(D_top_list)>>
  /\ comments = ListV(<<>>)

\* the records the loop has attempted: those that raised and those posted
Attempted == { caught[i] : i \in DOMAIN caught } \cup { calls[i].rec : i \in DOMAIN calls }

Increasing(s) == \A i, j \in DOMAIN s : i < j => s[i] < s[j]

\* C4: in the posting loop every record up to the loop position has been
\* attempted, in order, whichever of them failed; the loop position never
\* passes a record unattempted.
C4_FailureDoesNotStopLoop ==
  pc = "post_loop" =>
    /\ idx <= Len(comments.items)
    /\ Attempted = 1..idx
    /\ Increasing(caught)
    /\ Increasing([i \in DOMAIN calls |-> calls[i].rec])

\* the first record failed and the second one was still posted
C4_Witness ==
  /\ pc = "post_loop"
  /\ idx = 2
  /\ caught # <<>>
  /\ caught[1] = 1
  /\ \E i \in DOMAIN calls : calls[i].rec = 2

\* C5: once the model response has been obtained the process exits with
\* status zero, whatever fails in post_review_comments.
C5_PostingNeverFails ==
  (pc = "exited" /\ review # NoReview) => exit_code = 0

\* the run ended after a comment creation was refused by the hosting API
C5_Witness ==
  /\ pc = "exited"
  /\ exit_code = 0
  /\ \E i \in DOMAIN calls : ~calls[i].ok

\* a changed or context line is met while the counters are still unset
CountersUnsetAt(d, i) ==
  /\ FirstChar(d[i], {"-", "+", " "})
  /\ ~StartsWith(d[i], S_minus3)
  /\ ~StartsWith(d[i], S_plus3)
  /\ \A j \in 1..(i - 1) : ~(IsAtLine(d[j]) /\ HunkMatches(d[j]))

MalformedDiff(d) == \E i \in 1..Len(d) : CountersUnsetAt(d, i)

\* C6: on a malformed diff summarize_multi_file_diff does not raise and the
\* process does not end with a failure status.
C6_MalformedDiffDegrades ==
  MalformedDiff(diff_text) =>
    /\ pc # "main_except"
    /\ pc = "exited" => exit_code = 0

\* C7: without GITHUB_TOKEN no comment-creation call is issued, and a run in
\* which nothing else fails ends with exit status zero.
C7_TokenIsOptional ==
  ~env.token =>
    /\ calls = <<>>
    /\ (pc = "exited" /\ faults = {}) => exit_code = 0

\* records that carry every required field with a usable line number
WellTyped(c) ==
  /\ c.is_dict
  /\ {"file", "line", "guideline", "explanation"} \subseteq c.keys
  /\ c.line.t = "int"
  /\ c.startLine.t \in {"int", "null"}

\* C8: when posting is enabled and the loop has run to its end, one
\* create-review-comment call has been issued per record, in sequence order,
\* also for records whose optional fields are absent.
C8_OneCallPerRecord ==
  (/\ pc = "post_loop"
   /\ idx = Len(comments.items)
   /\ \A i \in DOMAIN comments.items : WellTyped(comments.items[i]))
    => /\ Len(calls) = Len(comments.items)
       /\ \A i \in DOMAIN calls : calls[i].rec = i

\* C11: a `diff --git` line flushes the buffers of the previous file block and
\* then resets all per-file state: the path, both counters and both buffers,
\* so that nothing of the previous block is carried into the next one.
C11_DiffGitResetsPerFileState ==
  [][(pc = "summarize" /\ pos < Len(diff_text) /\ IsGitLine(CurLine))
     => /\ results' = flush(results, file_path, old_lines, new_lines)
        /\ file_path' = <<>>
        /\ old_num' = NoneNum
        /\ new_num' = NoneNum
        /\ old_lines' = <<>>
        /\ new_lines' = <<>>]_vars

====
